---- MODULE Spec2Model ----
(***************************************************************************)
(* Model of the bs-quest-index registry: the warp routes (routes.rs), the  *)
(* sqlite tables mods and publish_keys (db.rs) and the artifact store with *)
(* its in-memory cache (file_repo.rs).  Every await point of a handler is  *)
(* one action, so concurrent requests interleave as they do on the tokio   *)
(* runtime.                                                                *)
(***************************************************************************)
EXTENDS Integers, Sequences, FiniteSets, TLC

\* ------------------------------------------------------------------ bounds

\* Total number of requests served in one behaviour.
MaxOps == 3

\* Width of the integers of a version, scaled down from the 64 bits of
\* u64 / i64 so that the values that wrap in `as i64` can be enumerated.
IntBits == 4

\* ------------------------------------------------------------ the universe

\* The request tasks; 0 stands for no task.  Tasks are the ones that serve
\* requests when every route is open.
Procs == {1, 2, 3}
Tasks == {1, 2}
NoProc == 0

NoToken == "none"

\* config.admin_keys
admin_keys == {"adm"}

Users == {"u1", "u2"}
Pws == {"t1", "t2"}
\* The Authorization header of a request: missing, a publisher's token, or
\* the admin token.
Tokens == {NoToken, "t1", "t2", "adm"}
\* The same for the admin routes: "t1" is the publisher's token there.
AdminRouteTokens == {NoToken, "t1", "adm"}
\* The bodies of POST /delete_key: pw alone, user alone, both, neither.
DeleteKeyBodies ==
    {<<"t1", NoToken>>, <<"t2", NoToken>>, <<NoToken, "u1">>,
     <<NoToken, "u2">>, <<"t1", "u2">>, <<NoToken, NoToken>>}

V(ma, mi, pa, pre) == [major |-> ma, minor |-> mi, patch |-> pa, pre |-> pre]

\* The versions requests are made for: two spellings of 1.0.0 (pre-release
\* tags are part of semver::Version but not of the path or the table row),
\* a sibling in the same minor directory and one in another minor directory.
Versions == {V(1, 0, 0, ""), V(1, 0, 0, "rc"), V(1, 0, 1, ""), V(1, 1, 0, "")}

Ids == {"a"}

\* Request bodies: byte sequences.  Bytes below 128 are ASCII; 255 is a byte
\* that never occurs in valid UTF-8.
Bodies == {<<65>>, <<66, 255>>}

NoBody == <<>>

\* ------------------------------------------------------------ pure helpers

RECURSIVE Pow2(_)
Pow2(n) == IF n = 0 THEN 1 ELSE 2 * Pow2(n - 1)

\* `x as i64` for an unsigned x: two's complement reinterpretation.
AsI64(x) == IF x >= Pow2(IntBits - 1) THEN x - Pow2(IntBits) ELSE x

\* `x as u64` for a signed x.
AsU64(x) == IF x < 0 THEN x + Pow2(IntBits) ELSE x

\* The row of table mods that Mod::insert and Mod::delete bind for a version.
DbRow(id, ver) ==
    [id |-> id, major |-> AsI64(ver.major), minor |-> AsI64(ver.minor),
     patch |-> AsI64(ver.patch)]

\* Whether a byte sequence is valid UTF-8 (on the modelled byte alphabet).
IsUtf8(b) == \A i \in 1..Len(b) : b[i] < 128

\* String::from_utf8_lossy, as the bytes of the resulting String: every
\* invalid byte becomes U+FFFD, whose UTF-8 encoding is EF BF BD.
RECURSIVE from_utf8_lossy(_)
from_utf8_lossy(b) ==
    IF b = <<>> THEN <<>>
    ELSE (IF Head(b) < 128 THEN <<Head(b)>> ELSE <<239, 191, 189>>)
            \o from_utf8_lossy(Tail(b))

\* Paths below config.downloads_path, as sequences of components.
Root == <<>>
MinorDir(id, ver) == <<id, ver.major, ver.minor>>
LeafFile(id, ver) == <<id, ver.major, ver.minor, ver.patch>>
Parent(path) == SubSeq(path, 1, Len(path) - 1)
Prefixes(path) == {SubSeq(path, 1, n) : n \in 0..Len(path)}

\* The key of the cache: (String, Version), the whole Version.
CacheKey(id, ver) == <<id, ver>>


\* Finite maps (HashMap, the directory tree) as functions on a finite domain.
EmptyMap == [x \in {} |-> NoBody]
MapPut(f, k, v) == [x \in DOMAIN f \cup {k} |-> IF x = k THEN v ELSE f[x]]
MapRemove(f, k) == [x \in DOMAIN f \ {k} |-> f[x]]

\* -------------------------------------------------------------- the state

VARIABLES
    mods,          \* table mods: the rows (id, major, minor, patch)
    publish_keys,  \* table publish_keys: the rows (pw, user), pw unique
    files,         \* the leaf files below downloads_path: path -> bytes
    dirs,          \* the directories that exist, downloads_path included
    cache,         \* FileRepo.cache: (id, Version) -> String
    lock,          \* FileRepo.cache's RwLock: its writer and its readers
    pc,            \* where each request task stands
    req,           \* the request each task is serving
    iter,          \* delete: how many directories its loop has removed
    nops,          \* requests started so far
    last,          \* the reply sent last: the route, the status, the body
    hist,          \* per row of mods, since the row was last deleted: the
                   \* replies and artifact writes of the uploads for it
    revoked,       \* the tokens delete_pw has deleted and add_key has not
                   \* inserted again since
    resolved       \* the query GET /{id} answered last, with its answer

vars == <<mods, publish_keys, files, dirs, cache, lock, pc, req, iter, nops,
          last, hist, revoked, resolved>>

PubKey(pw, user) == [pw |-> pw, user |-> user]

NoReq == [op |-> "none", id |-> "", ver |-> V(0, 0, 0, ""), body |-> NoBody,
          token |-> NoToken, pw |-> NoToken, user |-> NoToken]
Reply(r, status, body) ==
    [op |-> r.op, token |-> r.token, status |-> status, body |-> body]
NoReply == Reply(NoReq, 0, NoBody)

NoResolve == [id |-> "", req |-> [op |-> "*", major |-> 0, minor |-> -1,
                                  patch |-> -1],
              limit |-> 0, status |-> 0, found |-> <<>>]

Rows == {DbRow(id, ver) : id \in Ids, ver \in Versions}
\* since: "never" until the row is first deleted, "deleted" from a delete
\* that replied 200 to the next insert of the row, "inserted" after that.
NoHist == [created |-> 0, conflict |-> 0, puts |-> 0, failed |-> 0,
           since |-> "never"]

\* The credentials the process starts on: sqlite keeps publish_keys across
\* restarts.  POST /publish_key and /delete_key reach every other table.
InitKeys == {PubKey("t1", "u1"), PubKey("t2", "u2")}

Init ==
    /\ mods = {}
    /\ publish_keys = InitKeys
    /\ files = EmptyMap
    /\ dirs = {}
    /\ cache = EmptyMap
    /\ lock = [writer |-> NoProc, readers |-> {}]
    /\ pc = [p \in Procs |-> "idle"]
    /\ req = [p \in Procs |-> NoReq]
    /\ iter = [p \in Procs |-> 0]
    /\ nops = 0
    /\ last = NoReply
    /\ hist = [r \in Rows |-> NoHist]
    /\ revoked = {}
    /\ resolved = NoResolve

\* The versions a registry that has run before holds: siblings in one
\* minor directory.
StoredVersions == {V(1, 0, 0, ""), V(1, 0, 1, "")}

\* The state after a restart of a registry in which an upload of each of
\* StoredVersions has replied 201: sqlite and downloads_path persist, the
\* cache starts empty.
InitStored ==
    /\ mods = {DbRow("a", v) : v \in StoredVersions}
    /\ publish_keys = InitKeys
    /\ files = [f \in {LeafFile("a", v) : v \in StoredVersions} |-> <<65>>]
    /\ dirs = Prefixes(MinorDir("a", V(1, 0, 0, "")))
    /\ cache = EmptyMap
    /\ lock = [writer |-> NoProc, readers |-> {}]
    /\ pc = [p \in Procs |-> "idle"]
    /\ req = [p \in Procs |-> NoReq]
    /\ iter = [p \in Procs |-> 0]
    /\ nops = 0
    /\ last = NoReply
    /\ hist = [r \in Rows |->
                 IF r \in {DbRow("a", v) : v \in StoredVersions}
                    THEN [NoHist EXCEPT !.created = 1, !.puts = 1]
                    ELSE NoHist]
    /\ revoked = {}
    /\ resolved = NoResolve

\* ------------------------------------------------------ db.rs, as operators

\* (Faulty variant: INSERT OR REPLACE, which always affects a row.)
ModInsertResult_Replace(row, tbl) == TRUE

\* Mod::insert: INSERT OR IGNORE INTO mods; true iff a row was affected.
ModInsertResult(row, tbl) == row \notin tbl
ModInsertTable(row, tbl) == tbl \cup {row}

\* (Faulty variant: a DELETE with WHERE id = ? alone.)
ModDeleteTable_AllOfId(row, tbl) == {r \in tbl : r.id # row.id}

\* (Faulty variant: a DELETE that reports the row and leaves it.)
ModDeleteTable_Keep(row, tbl) == tbl

\* Mod::delete: DELETE FROM mods WHERE id, major, minor, patch match.
ModDeleteResult(row, tbl) == row \in tbl
ModDeleteTable(row, tbl) == tbl \ {row}

\* PublishKey::resolve_one(key).is_some()
KeyResolves(key, tbl) == \E k \in tbl : k.pw = key

\* PublishKey::insert: INSERT OR IGNORE INTO publish_keys, pw unique.
KeyInsertResult(pw, user, tbl) == ~KeyResolves(pw, tbl)
KeyInsertTable(pw, user, tbl) ==
    IF KeyResolves(pw, tbl) THEN tbl ELSE tbl \cup {PubKey(pw, user)}

\* (Faulty variant: delete_pw with the WHERE clause of delete_user.)
KeyDeletePwTable_ByUser(pw, tbl) == {k \in tbl : k.user # pw}

\* (Faulty variant: delete_pw that reports a row whatever it affected.)
KeyDeletePwResult_Always(pw, tbl) == TRUE

\* (Faulty variant: delete_user that stops at the first row, LIMIT 1.)
KeyDeleteUserTable_One(user, tbl) ==
    IF \E k \in tbl : k.user = user
       THEN tbl \ {CHOOSE k \in tbl : k.user = user}
       ELSE tbl

\* PublishKey::delete_pw and PublishKey::delete_user.
KeyDeletePwResult(pw, tbl) == \E k \in tbl : k.pw = pw
KeyDeletePwTable(pw, tbl) == {k \in tbl : k.pw # pw}
KeyDeleteUserResult(user, tbl) == \E k \in tbl : k.user = user
KeyDeleteUserTable(user, tbl) == {k \in tbl : k.user # user}

\* --------------------------------------------------- routes.rs: the filters

\* (Faulty variant: auth that takes any Authorization header.)
Auth_AnyHeader(token, tbl) == token # NoToken

\* auth: the Authorization header must resolve in publish_keys.
Auth(token, tbl) == token # NoToken /\ KeyResolves(token, tbl)

\* (Faulty variant: auth_admin that also lets the publishers' tokens in.)
AuthAdmin_OrPublisher(token) ==
    token # NoToken /\ (token \in admin_keys \/ KeyResolves(token, publish_keys))

\* auth_admin: the Authorization header must be one of config.admin_keys.
AuthAdmin(token) == token # NoToken /\ token \in admin_keys

\* (Faulty variant: or_nf that hands the bool on, as or_ise does.)
OrNfStatus_Ignore(found) == 200

\* TryExt::or_nf on the bool of Mod::delete and PublishKey::delete_*
\* (errors.rs): false is NotFound.
OrNfStatus(found) == IF found THEN 200 ELSE 404

\* ------------------------------------------------------------- filesystem

\* fs::remove_dir succeeds on an existing directory with no entry in it.
DirEmpty(d, fs, ds) ==
    /\ \A f \in DOMAIN fs : Parent(f) # d
    /\ \A e \in ds : Len(e) = 0 \/ Parent(e) # d

\* (Faulty variant: fs::remove_dir_all, which takes the entries with it.)
CanRemoveDir_All(d, fs, ds) == d \in ds
CanRemoveDir(d, fs, ds) == d \in ds /\ DirEmpty(d, fs, ds)

\* fs::create_dir_all: the directory and every missing ancestor.
CreateDirAll(d, ds) == ds \cup Prefixes(d)

\* (Faulty variant: a write that cannot fail.)
CanWrite_Always(f, ds) == TRUE

\* fs::write creates or truncates the file; its directory must exist.
CanWrite(f, ds) == Parent(f) \in ds

\* fs::read_to_string: the file must exist and hold valid UTF-8.
CanReadToString(f, fs) == f \in DOMAIN fs /\ IsUtf8(fs[f])

\* get_file as one call: the cached String when there is one, else the file
\* read as a string, else an error, which download answers with 404.
GetFileResult(id, ver, c, fs) ==
    IF CacheKey(id, ver) \in DOMAIN c
       THEN [status |-> 200, body |-> c[CacheKey(id, ver)]]
       ELSE IF CanReadToString(LeafFile(id, ver), fs)
               THEN [status |-> 200, body |-> fs[LeafFile(id, ver)]]
               ELSE [status |-> 404, body |-> NoBody]

\* ------------------------------------------------------- the request tasks

\* A task takes up a request.  The tasks are interchangeable, so of the
\* idle ones the lowest takes it.
Begin(p) ==
    /\ pc[p] = "idle"
    /\ \A q \in Procs : q < p => pc[q] # "idle"
    /\ nops < MaxOps
    /\ nops' = nops + 1

\* The task goes on serving request r at the next await point.
Goto(p, r, where) ==
    /\ pc' = [pc EXCEPT ![p] = where]
    /\ req' = [req EXCEPT ![p] = r]
    /\ UNCHANGED <<last, resolved>>

\* The task replies to request r and is idle again.
Finish(p, r, status, body) ==
    /\ pc' = [pc EXCEPT ![p] = "idle"]
    /\ req' = [req EXCEPT ![p] = NoReq]
    /\ last' = Reply(r, status, body)
    /\ UNCHANGED resolved

HistAdd(row, field) ==
    hist' = [hist EXCEPT ![row][field] = @ + 1]

UploadReq(id, ver, body, token) ==
    [NoReq EXCEPT !.op = "upload", !.id = id, !.ver = ver, !.body = body,
                  !.token = token]
DeleteReq(id, ver, token) ==
    [NoReq EXCEPT !.op = "delete", !.id = id, !.ver = ver, !.token = token]
DownloadReq(id, ver) ==
    [NoReq EXCEPT !.op = "download", !.id = id, !.ver = ver]
KeyReq(op, token, pw, user) ==
    [NoReq EXCEPT !.op = op, !.token = token, !.pw = pw, !.user = user]

\* -------------------------------------------------- POST /{id}/{version}

\* The upload route up to its first suspension in the handler: the auth
\* filter has queried publish_keys.
UploadAuth(p, id, ver, body, token) ==
    /\ Begin(p)
    /\ IF Auth(token, publish_keys)
          THEN Goto(p, UploadReq(id, ver, body, token), "insert")
          ELSE Finish(p, UploadReq(id, ver, body, token), 401, NoBody)
    /\ UNCHANGED <<mods, publish_keys, files, dirs, cache, lock, iter, hist>>
    /\ UNCHANGED revoked

\* (Faulty variant: upload without the early return on a row that was there.)
UploadInsert_NoReturn(p) ==
    /\ pc[p] = "insert"
    /\ mods' = ModInsertTable(DbRow(req[p].id, req[p].ver), mods)
    /\ Goto(p, req[p], "put_cache")
    /\ UNCHANGED <<publish_keys, files, dirs, cache, lock, iter, nops, hist>>
    /\ UNCHANGED revoked

\* upload: Mod::insert, and 409 when no row was inserted.
UploadInsert(p) ==
    /\ pc[p] = "insert"
    /\ LET row == DbRow(req[p].id, req[p].ver) IN
        /\ mods' = ModInsertTable(row, mods)
        /\ IF ModInsertResult(row, mods)
              THEN /\ Goto(p, req[p], "put_cache")
                   /\ hist' = [hist EXCEPT ![row].since =
                                 IF @ = "deleted" THEN "inserted" ELSE @]
              ELSE /\ Finish(p, req[p], 409, NoBody)
                   /\ HistAdd(row, "conflict")
    /\ UNCHANGED <<publish_keys, files, dirs, cache, lock, iter, nops>>
    /\ UNCHANGED revoked

\* write_file: the cache entry, under the write lock.
WriteFileCache(p) ==
    /\ pc[p] = "put_cache"
    /\ lock.writer = NoProc /\ lock.readers = {}
    /\ cache' = MapPut(cache, CacheKey(req[p].id, req[p].ver),
                       from_utf8_lossy(req[p].body))
    /\ HistAdd(DbRow(req[p].id, req[p].ver), "puts")
    /\ Goto(p, req[p], "mkdir")
    /\ UNCHANGED <<mods, publish_keys, files, dirs, lock, iter, nops>>
    /\ UNCHANGED revoked

\* write_file: fs::create_dir_all of {id}/{major}/{minor}.
WriteFileMkdir(p) ==
    /\ pc[p] = "mkdir"
    /\ dirs' = CreateDirAll(MinorDir(req[p].id, req[p].ver), dirs)
    /\ Goto(p, req[p], "write")
    /\ UNCHANGED <<mods, publish_keys, files, cache, lock, iter, nops, hist>>
    /\ UNCHANGED revoked

\* write_file: fs::write of the leaf; upload replies 201, or 500 when the
\* write fails.
WriteFileWrite(p) ==
    /\ pc[p] = "write"
    /\ LET f == LeafFile(req[p].id, req[p].ver)
           row == DbRow(req[p].id, req[p].ver) IN
        IF CanWrite(f, dirs)
           THEN /\ files' = MapPut(files, f, req[p].body)
                /\ Finish(p, req[p], 201, NoBody)
                /\ HistAdd(row, "created")
           ELSE /\ UNCHANGED files
                /\ Finish(p, req[p], 500, NoBody)
                /\ HistAdd(row, "failed")
    /\ UNCHANGED <<mods, publish_keys, dirs, cache, lock, iter, nops>>
    /\ UNCHANGED revoked

\* ------------------------------------------------- DELETE /{id}/{version}

\* The directory the loop of delete is at after n removals.
DeleteDir(id, ver, n) == SubSeq(MinorDir(id, ver), 1, 3 - n)

\* (Faulty variant: delete that goes on when fs::remove_file fails.)
DeleteRemoveFile_IgnoreMissing(p, id, ver, token) ==
    /\ Begin(p)
    /\ IF ~AuthAdmin(token)
          THEN /\ Finish(p, DeleteReq(id, ver, token), 401, NoBody)
               /\ UNCHANGED files
          ELSE /\ files' = MapRemove(files, LeafFile(id, ver))
               /\ Goto(p, DeleteReq(id, ver, token), "rmdir")
    /\ UNCHANGED <<mods, publish_keys, dirs, cache, lock, iter, hist>>
    /\ UNCHANGED revoked

\* The delete route up to its first suspension after fs::remove_file:
\* auth_admin reads only the configuration.  A missing leaf is 404.
DeleteRemoveFile(p, id, ver, token) ==
    /\ Begin(p)
    /\ IF ~AuthAdmin(token)
          THEN /\ Finish(p, DeleteReq(id, ver, token), 401, NoBody)
               /\ UNCHANGED files
          ELSE IF LeafFile(id, ver) \in DOMAIN files
                  THEN /\ files' = MapRemove(files, LeafFile(id, ver))
                       /\ Goto(p, DeleteReq(id, ver, token), "rmdir")
                  ELSE /\ Finish(p, DeleteReq(id, ver, token), 404, NoBody)
                       /\ UNCHANGED files
    /\ UNCHANGED <<mods, publish_keys, dirs, cache, lock, iter, hist>>
    /\ UNCHANGED revoked

\* delete: one turn of `for _ in 0..3`: fs::remove_dir, break when it
\* fails, else go on with the parent.
DeleteRemoveDir(p) ==
    /\ pc[p] = "rmdir"
    /\ LET d == DeleteDir(req[p].id, req[p].ver, iter[p]) IN
        IF CanRemoveDir(d, files, dirs)
           THEN /\ dirs' = dirs \ {d}
                /\ iter' = [iter EXCEPT ![p] = @ + 1]
                /\ Goto(p, req[p],
                        IF iter[p] + 1 < 3 THEN "rmdir" ELSE "db_delete")
           ELSE /\ UNCHANGED <<dirs, iter>>
                /\ Goto(p, req[p], "db_delete")
    /\ UNCHANGED <<mods, publish_keys, files, cache, lock, nops, hist>>
    /\ UNCHANGED revoked

\* delete: Mod::delete(..).or_nf(), then 200.
DeleteModDelete(p) ==
    /\ pc[p] = "db_delete"
    /\ LET row == DbRow(req[p].id, req[p].ver) IN
        /\ mods' = ModDeleteTable(row, mods)
        /\ Finish(p, req[p], OrNfStatus(ModDeleteResult(row, mods)), NoBody)
        /\ iter' = [iter EXCEPT ![p] = 0]
        /\ hist' = IF OrNfStatus(ModDeleteResult(row, mods)) = 200
                      THEN [hist EXCEPT ![row] =
                                [NoHist EXCEPT !.since = "deleted"]]
                      ELSE hist
    /\ UNCHANGED <<publish_keys, files, dirs, cache, lock, nops>>
    /\ UNCHANGED revoked

\* ---------------------------------------------------- GET /{id}/{version}

\* get_file: self.cache.read().await
GetFileReadLock(p, id, ver) ==
    /\ Begin(p)
    /\ lock.writer = NoProc
    /\ lock' = [lock EXCEPT !.readers = @ \cup {p}]
    /\ Goto(p, DownloadReq(id, ver), "cache_get")
    /\ UNCHANGED <<mods, publish_keys, files, dirs, cache, iter, hist>>
    /\ UNCHANGED revoked

\* get_file: the lookup under the read lock; a hit is the reply.
GetFileLookup(p) ==
    /\ pc[p] = "cache_get"
    /\ lock' = [lock EXCEPT !.readers = @ \ {p}]
    /\ LET k == CacheKey(req[p].id, req[p].ver) IN
        IF k \in DOMAIN cache
           THEN Finish(p, req[p], 200, cache[k])
           ELSE Goto(p, req[p], "write_lock")
    /\ UNCHANGED <<mods, publish_keys, files, dirs, cache, iter, nops, hist>>
    /\ UNCHANGED revoked

\* (Faulty variant: a write lock that does not wait for the other holders.)
GetFileWriteLock_NoWait(p) ==
    /\ pc[p] = "write_lock"
    /\ lock' = [lock EXCEPT !.writer = p]
    /\ Goto(p, req[p], "load")
    /\ UNCHANGED <<mods, publish_keys, files, dirs, cache, iter, nops, hist>>
    /\ UNCHANGED revoked

\* get_file: self.cache.write().await
GetFileWriteLock(p) ==
    /\ pc[p] = "write_lock"
    /\ lock.writer = NoProc /\ lock.readers = {}
    /\ lock' = [lock EXCEPT !.writer = p]
    /\ Goto(p, req[p], "load")
    /\ UNCHANGED <<mods, publish_keys, files, dirs, cache, iter, nops, hist>>
    /\ UNCHANGED revoked

\* get_file: fs::read_to_string under the write lock, then cache.insert;
\* download maps an error to 404.
GetFileLoad(p) ==
    /\ pc[p] = "load"
    /\ lock' = [lock EXCEPT !.writer = NoProc]
    /\ LET f == LeafFile(req[p].id, req[p].ver) IN
        IF CanReadToString(f, files)
           THEN /\ cache' = MapPut(cache, CacheKey(req[p].id, req[p].ver),
                                   files[f])
                /\ Finish(p, req[p], 200, files[f])
           ELSE /\ UNCHANGED cache
                /\ Finish(p, req[p], 404, NoBody)
    /\ UNCHANGED <<mods, publish_keys, files, dirs, iter, nops, hist>>
    /\ UNCHANGED revoked

\* ------------------------------------------ POST /publish_key, /delete_key

\* add_key: the body is a PublishKey {pw, user}.
AddKey(p, token, pw, user) ==
    /\ Begin(p)
    /\ IF ~AuthAdmin(token)
          THEN /\ Finish(p, KeyReq("add_key", token, pw, user), 401, NoBody)
               /\ UNCHANGED publish_keys
               /\ UNCHANGED revoked
          ELSE /\ publish_keys' = KeyInsertTable(pw, user, publish_keys)
               /\ Finish(p, KeyReq("add_key", token, pw, user),
                         IF KeyInsertResult(pw, user, publish_keys)
                            THEN 201 ELSE 409, NoBody)
               /\ revoked' = IF KeyInsertResult(pw, user, publish_keys)
                                THEN revoked \ {pw} ELSE revoked
    /\ UNCHANGED <<mods, files, dirs, cache, lock, iter, hist>>

\* What delete_key does to publish_keys, and its status: pw is looked at
\* first, and a body with neither pw nor user is 400.
DeleteKeyTable(pw, user, tbl) ==
    IF pw # NoToken THEN KeyDeletePwTable(pw, tbl)
    ELSE IF user # NoToken THEN KeyDeleteUserTable(user, tbl)
    ELSE tbl
DeleteKeyStatus(pw, user, tbl) ==
    IF pw # NoToken THEN OrNfStatus(KeyDeletePwResult(pw, tbl))
    ELSE IF user # NoToken THEN OrNfStatus(KeyDeleteUserResult(user, tbl))
    ELSE 400

\* delete_key: the body is an OptPublishKey {pw?, user?}.
DeleteKey(p, token, pw, user) ==
    /\ Begin(p)
    /\ IF ~AuthAdmin(token)
          THEN /\ Finish(p, KeyReq("delete_key", token, pw, user), 401,
                         NoBody)
               /\ UNCHANGED publish_keys
               /\ UNCHANGED revoked
          ELSE /\ publish_keys' = DeleteKeyTable(pw, user, publish_keys)
               /\ Finish(p, KeyReq("delete_key", token, pw, user),
                         DeleteKeyStatus(pw, user, publish_keys), NoBody)
               /\ revoked' =
                    IF pw # NoToken
                          /\ DeleteKeyStatus(pw, user, publish_keys) = 200
                       THEN revoked \cup {pw} ELSE revoked
    /\ UNCHANGED <<mods, files, dirs, cache, lock, iter, hist>>

\* ------------------------------------------------------ the specification

Next ==
    \/ \E p \in Tasks, id \in Ids, ver \in Versions, body \in Bodies,
          token \in Tokens : UploadAuth(p, id, ver, body, token)
    \/ \E p \in Tasks : UploadInsert(p)
    \/ \E p \in Tasks : WriteFileCache(p)
    \/ \E p \in Tasks : WriteFileMkdir(p)
    \/ \E p \in Tasks : WriteFileWrite(p)
    \/ \E p \in Tasks, id \in Ids, ver \in Versions,
          token \in AdminRouteTokens : DeleteRemoveFile(p, id, ver, token)
    \/ \E p \in Tasks : DeleteRemoveDir(p)
    \/ \E p \in Tasks : DeleteModDelete(p)
    \/ \E p \in Tasks, id \in Ids, ver \in Versions :
          GetFileReadLock(p, id, ver)
    \/ \E p \in Tasks : GetFileLookup(p)
    \/ \E p \in Tasks : GetFileWriteLock(p)
    \/ \E p \in Tasks : GetFileLoad(p)
    \/ \E p \in Tasks, token \in AdminRouteTokens, pw \in Pws,
          user \in Users : AddKey(p, token, pw, user)
    \/ \E p \in Tasks, token \in AdminRouteTokens, b \in DeleteKeyBodies :
          DeleteKey(p, token, b[1], b[2])

Spec == Init /\ [][Next]_vars

\* The same routes, on a registry that starts with artifacts published.
SpecStored == InitStored /\ [][Next]_vars

\* The Authorization header of the uploads that race: missing, or a
\* publisher's token.
PublishTokens == {NoToken, "t1"}

\* Only POST /{id}/{version} is requested, by up to three tasks at once.
NextPublish ==
    \/ \E p \in Procs, id \in Ids, ver \in Versions, body \in Bodies,
          token \in PublishTokens : UploadAuth(p, id, ver, body, token)
    \/ \E p \in Procs : UploadInsert(p)
    \/ \E p \in Procs : WriteFileCache(p)
    \/ \E p \in Procs : WriteFileMkdir(p)
    \/ \E p \in Procs : WriteFileWrite(p)

SpecPublish == Init /\ [][NextPublish]_vars

\* No upload and no delete is being served.
Quiet ==
    \A q \in Procs :
        pc[q] \notin {"insert", "put_cache", "mkdir", "write", "rmdir",
                      "db_delete"}

\* An upload and a delete taken up when none is being served.
SerialUpload(p, id, ver, body, token) ==
    Quiet /\ UploadAuth(p, id, ver, body, token)
SerialDelete(p, id, ver, token) ==
    Quiet /\ DeleteRemoveFile(p, id, ver, token)

\* The routes as clients call them that let one upload or delete reply
\* before they send the next; downloads and the credential routes come as
\* they like.
NextSerial ==
    \/ \E p \in Tasks, id \in Ids, ver \in Versions, body \in Bodies,
          token \in PublishTokens : SerialUpload(p, id, ver, body, token)
    \/ \E p \in Tasks : UploadInsert(p)
    \/ \E p \in Tasks : WriteFileCache(p)
    \/ \E p \in Tasks : WriteFileMkdir(p)
    \/ \E p \in Tasks : WriteFileWrite(p)
    \/ \E p \in Tasks, id \in Ids, ver \in Versions,
          token \in AdminRouteTokens : SerialDelete(p, id, ver, token)
    \/ \E p \in Tasks : DeleteRemoveDir(p)
    \/ \E p \in Tasks : DeleteModDelete(p)
    \/ \E p \in Tasks, id \in Ids, ver \in Versions :
          GetFileReadLock(p, id, ver)
    \/ \E p \in Tasks : GetFileLookup(p)
    \/ \E p \in Tasks : GetFileWriteLock(p)
    \/ \E p \in Tasks : GetFileLoad(p)
    \/ \E p \in Tasks, token \in AdminRouteTokens, pw \in Pws,
          user \in Users : AddKey(p, token, pw, user)
    \/ \E p \in Tasks, token \in AdminRouteTokens, b \in DeleteKeyBodies :
          DeleteKey(p, token, b[1], b[2])

SpecSerial == Init /\ [][NextSerial]_vars

\* Only GET /{id}/{version} is requested, by up to three tasks at once, of
\* a registry that starts with artifacts published and an empty cache.
NextDownload ==
    \/ \E p \in Procs, id \in Ids, ver \in Versions :
          GetFileReadLock(p, id, ver)
    \/ \E p \in Procs : GetFileLookup(p)
    \/ \E p \in Procs : GetFileWriteLock(p)
    \/ \E p \in Procs : GetFileLoad(p)

SpecDownload == InitStored /\ [][NextDownload]_vars

\* The uploads and the deletes on their own, on a registry that holds the
\* files of StoredVersions.  The database holds their rows, or it is one
\* that never had the row of a/1.0.0: main takes database_url and
\* downloads_path from the configuration and reconciles nothing.
InitDelete ==
    /\ \E vs \in {StoredVersions, {V(1, 0, 1, "")}} :
          /\ mods = {DbRow("a", v) : v \in vs}
          /\ hist = [r \in Rows |->
                       IF r \in {DbRow("a", v) : v \in vs}
                          THEN [NoHist EXCEPT !.created = 1, !.puts = 1]
                          ELSE NoHist]
    /\ publish_keys = InitKeys
    /\ files = [f \in {LeafFile("a", v) : v \in StoredVersions} |-> <<65>>]
    /\ dirs = Prefixes(MinorDir("a", V(1, 0, 0, "")))
    /\ cache = EmptyMap
    /\ lock = [writer |-> NoProc, readers |-> {}]
    /\ pc = [p \in Procs |-> "idle"]
    /\ req = [p \in Procs |-> NoReq]
    /\ iter = [p \in Procs |-> 0]
    /\ nops = 0
    /\ last = NoReply
    /\ revoked = {}
    /\ resolved = NoResolve

NextDelete ==
    \/ \E p \in Tasks, id \in Ids, ver \in Versions, token \in PublishTokens :
          UploadAuth(p, id, ver, <<65>>, token)
    \/ \E p \in Tasks : UploadInsert(p)
    \/ \E p \in Tasks : WriteFileCache(p)
    \/ \E p \in Tasks : WriteFileMkdir(p)
    \/ \E p \in Tasks : WriteFileWrite(p)
    \/ \E p \in Tasks, id \in Ids, ver \in Versions,
          token \in AdminRouteTokens : DeleteRemoveFile(p, id, ver, token)
    \/ \E p \in Tasks : DeleteRemoveDir(p)
    \/ \E p \in Tasks : DeleteModDelete(p)

SpecDelete == InitDelete /\ [][NextDelete]_vars

\* The credential routes on their own, with the uploads they gate, on any
\* table of three tokens: sqlite keeps publish_keys across restarts.
KeyPws == {"t1", "t2", "t3"}
KeyTokens == {NoToken, "t1", "t2", "t3", "adm"}
KeyBodies ==
    {<<"t1", NoToken>>, <<"t3", NoToken>>, <<NoToken, "u1">>,
     <<NoToken, "u2">>, <<"t1", "u2">>, <<NoToken, NoToken>>}
KeyTables == {[pw \in KeyPws |-> PubKey(pw, u[pw])] : u \in [KeyPws -> Users]}

InitCredentials ==
    /\ \E t \in KeyTables : publish_keys = {t[pw] : pw \in KeyPws}
    /\ mods = {}
    /\ files = EmptyMap
    /\ dirs = {}
    /\ cache = EmptyMap
    /\ lock = [writer |-> NoProc, readers |-> {}]
    /\ pc = [p \in Procs |-> "idle"]
    /\ req = [p \in Procs |-> NoReq]
    /\ iter = [p \in Procs |-> 0]
    /\ nops = 0
    /\ last = NoReply
    /\ hist = [r \in Rows |-> NoHist]
    /\ revoked = {}
    /\ resolved = NoResolve

NextCredentials ==
    \/ \E p \in Tasks, id \in Ids, ver \in StoredVersions, token \in KeyTokens :
          UploadAuth(p, id, ver, <<65>>, token)
    \/ \E p \in Tasks : UploadInsert(p)
    \/ \E p \in Tasks : WriteFileCache(p)
    \/ \E p \in Tasks : WriteFileMkdir(p)
    \/ \E p \in Tasks : WriteFileWrite(p)
    \/ \E p \in Tasks, token \in AdminRouteTokens, pw \in KeyPws,
          user \in Users : AddKey(p, token, pw, user)
    \/ \E p \in Tasks, token \in AdminRouteTokens, b \in KeyBodies :
          DeleteKey(p, token, b[1], b[2])

SpecCredentials == InitCredentials /\ [][NextCredentials]_vars

\* The body of the first upload of a/1.0.0 and the body of the uploads that
\* come after its delete.
FirstBody == <<65>>
SecondBody == <<66>>

\* The spellings of one version: they differ as semver::Version and share
\* a row of mods and a leaf file.
Spellings == {V(1, 0, 0, ""), V(1, 0, 0, "rc")}

\* The state of a running registry after an upload of a/1.0.0 with
\* FirstBody has replied 201: write_file has filled the cache.
InitPublished ==
    /\ mods = {DbRow("a", V(1, 0, 0, ""))}
    /\ publish_keys = InitKeys
    /\ files = [f \in {LeafFile("a", V(1, 0, 0, ""))} |-> FirstBody]
    /\ dirs = Prefixes(MinorDir("a", V(1, 0, 0, "")))
    /\ cache = [k \in {CacheKey("a", V(1, 0, 0, ""))} |->
                  from_utf8_lossy(FirstBody)]
    /\ lock = [writer |-> NoProc, readers |-> {}]
    /\ pc = [p \in Procs |-> "idle"]
    /\ req = [p \in Procs |-> NoReq]
    /\ iter = [p \in Procs |-> 0]
    /\ nops = 0
    /\ last = NoReply
    /\ hist = [r \in Rows |->
                 IF r = DbRow("a", V(1, 0, 0, ""))
                    THEN [NoHist EXCEPT !.created = 1, !.puts = 1]
                    ELSE NoHist]
    /\ revoked = {}
    /\ resolved = NoResolve

\* No request is being served.
Idle == \A q \in Procs : pc[q] = "idle"

\* A download sent by a client that has seen the reply to every request
\* sent before it.
LaterDownload(p, id, ver) ==
    Idle /\ GetFileReadLock(p, id, ver)

\* The uploads, deletes and downloads of the spellings of a/1.0.0, every
\* upload with SecondBody.  Uploads and deletes come as they like, also
\* while a download is being served.
NextRepublish ==
    \/ \E p \in Tasks, id \in Ids, ver \in Spellings, token \in PublishTokens :
          UploadAuth(p, id, ver, SecondBody, token)
    \/ \E p \in Tasks : UploadInsert(p)
    \/ \E p \in Tasks : WriteFileCache(p)
    \/ \E p \in Tasks : WriteFileMkdir(p)
    \/ \E p \in Tasks : WriteFileWrite(p)
    \/ \E p \in Tasks, id \in Ids, ver \in Spellings,
          token \in AdminRouteTokens : DeleteRemoveFile(p, id, ver, token)
    \/ \E p \in Tasks : DeleteRemoveDir(p)
    \/ \E p \in Tasks : DeleteModDelete(p)
    \/ \E p \in Tasks, id \in Ids, ver \in Spellings :
          LaterDownload(p, id, ver)
    \/ \E p \in Tasks : GetFileLookup(p)
    \/ \E p \in Tasks : GetFileWriteLock(p)
    \/ \E p \in Tasks : GetFileLoad(p)

SpecRepublish == InitPublished /\ [][NextRepublish]_vars

\* ----------------------------------------------------------- GET /{id}

\* The largest limit queried.
MaxLimit == 3

\* A VersionReq of one comparator: op, major and the optional minor and
\* patch (None when left out); "*" is VersionReq::STAR, no comparator.
None == -1
Cmp(op, ma, mi, pa) == [op |-> op, major |-> ma, minor |-> mi, patch |-> pa]
Star == Cmp("*", 0, None, None)

\* Comparator::matches of semver, on versions without a pre-release tag
\* (From<DbMod> builds the versions with Version::new).
MatchesExact(c, v) ==
    /\ v.major = c.major
    /\ c.minor # None => v.minor = c.minor
    /\ c.patch # None => v.patch = c.patch
MatchesGreater(c, v) ==
    IF v.major # c.major THEN v.major > c.major
    ELSE IF c.minor = None THEN FALSE
    ELSE IF v.minor # c.minor THEN v.minor > c.minor
    ELSE IF c.patch = None THEN FALSE
    ELSE v.patch > c.patch
MatchesLess(c, v) ==
    IF v.major # c.major THEN v.major < c.major
    ELSE IF c.minor = None THEN FALSE
    ELSE IF v.minor # c.minor THEN v.minor < c.minor
    ELSE IF c.patch = None THEN FALSE
    ELSE v.patch < c.patch
MatchesTilde(c, v) ==
    IF v.major # c.major THEN FALSE
    ELSE IF c.minor # None /\ v.minor # c.minor THEN FALSE
    ELSE IF c.patch # None /\ v.patch # c.patch THEN v.patch > c.patch
    ELSE TRUE
MatchesCaret(c, v) ==
    IF v.major # c.major THEN FALSE
    ELSE IF c.minor = None THEN TRUE
    ELSE IF c.patch = None
            THEN IF c.major > 0 THEN v.minor >= c.minor
                                ELSE v.minor = c.minor
    ELSE IF c.major > 0
            THEN IF v.minor # c.minor THEN v.minor > c.minor
                 ELSE v.patch >= c.patch
    ELSE IF c.minor > 0
            THEN IF v.minor # c.minor THEN FALSE
                 ELSE v.patch >= c.patch
    ELSE v.minor = c.minor /\ v.patch = c.patch
Matches(c, v) ==
    CASE c.op = "*" -> TRUE
      [] c.op = "=" -> MatchesExact(c, v)
      [] c.op = ">" -> MatchesGreater(c, v)
      [] c.op = ">=" -> MatchesExact(c, v) \/ MatchesGreater(c, v)
      [] c.op = "<" -> MatchesLess(c, v)
      [] c.op = "~" -> MatchesTilde(c, v)
      [] c.op = "^" -> MatchesCaret(c, v)

\* From<DbMod> for Mod: the columns `as u64`.
FromDbMod(r) == V(AsU64(r.major), AsU64(r.minor), AsU64(r.patch), "")

\* ORDER BY major DESC, minor DESC, patch DESC, on the INTEGER columns.
RowBefore(r, o) ==
    \/ r.major > o.major
    \/ r.major = o.major /\ r.minor > o.minor
    \/ r.major = o.major /\ r.minor = o.minor /\ r.patch > o.patch

\* SELECT * FROM mods WHERE id = ? ORDER BY ...: the rows in their order.
RECURSIVE Ordered(_)
Ordered(rows) ==
    IF rows = {} THEN <<>>
    ELSE LET first == CHOOSE r \in rows :
                          \A o \in rows \ {r} : RowBefore(r, o)
         IN <<first>> \o Ordered(rows \ {first})
SelectOrdered(id, tbl) == Ordered({r \in tbl : r.id = id})

\* try_filter_map(tfm_fn): the versions of the rows that match, in order.
RECURSIVE FilterMatches(_, _)
FilterMatches(rows, c) ==
    IF rows = <<>> THEN <<>>
    ELSE (IF Matches(c, FromDbMod(Head(rows)))
             THEN <<FromDbMod(Head(rows))>> ELSE <<>>)
            \o FilterMatches(Tail(rows), c)

Take(seq, n) == SubSeq(seq, 1, IF n < Len(seq) THEN n ELSE Len(seq))

\* Mod::resolve_one (.next()), resolve_all (.try_collect()) and resolve_n
\* (.take(n).try_collect()), as resolve picks them by limit.  The Option
\* of resolve_one is the sequence of at most one version.
ResolveFound(id, c, limit, tbl) ==
    LET stream == FilterMatches(SelectOrdered(id, tbl), c) IN
    IF limit = 1 THEN Take(stream, 1)
    ELSE IF limit = 0 THEN stream
    ELSE Take(stream, limit)

\* (Faulty variant: resolve without the .or_nf() on what resolve_one found.)
ResolveStatus_Always200(limit, found) == 200

\* resolve: only the limit = 1 arm has .or_nf(); the others reply with the
\* array, empty or not.
ResolveStatus(limit, found) ==
    IF limit = 1 /\ found = <<>> THEN 404 ELSE 200

Resolve(id, c, limit) ==
    /\ resolved' = [id |-> id, req |-> c, limit |-> limit,
                    status |-> ResolveStatus(limit,
                                  ResolveFound(id, c, limit, mods)),
                    found |-> ResolveFound(id, c, limit, mods)]
    /\ UNCHANGED <<mods, publish_keys, files, dirs, cache, lock, pc, req,
                   iter, nops, last, hist, revoked>>

\* The value that wraps to the least i64.
Big == Pow2(IntBits - 1)

\* The versions a catalog is drawn from, and the queries made of it.
ResolveVersions ==
    {V(0, 1, 0, ""), V(1, 0, 0, ""), V(1, 0, 1, ""), V(1, 2, 0, ""),
     V(2, 0, 0, ""), V(Big, 0, 0, ""), V(1, Big, 0, "")}
ResolveIds == {"a", "b"}
ResolveReqs ==
    {Star, Cmp("^", 1, None, None), Cmp("~", 1, 0, None),
     Cmp("=", 1, 0, 1), Cmp(">=", 1, 0, 1), Cmp("<", 2, None, None),
     Cmp("^", 0, 1, None), Cmp("~", 3, None, None)}

\* Any catalog of "a" with or without a version of "b", as uploads leave it.
InitResolve ==
    /\ \E va \in SUBSET ResolveVersions, vb \in SUBSET {V(1, 0, 0, "")} :
          mods = {DbRow("a", v) : v \in va} \cup {DbRow("b", v) : v \in vb}
    /\ publish_keys = InitKeys
    /\ files = EmptyMap
    /\ dirs = {}
    /\ cache = EmptyMap
    /\ lock = [writer |-> NoProc, readers |-> {}]
    /\ pc = [p \in Procs |-> "idle"]
    /\ req = [p \in Procs |-> NoReq]
    /\ iter = [p \in Procs |-> 0]
    /\ nops = 0
    /\ last = NoReply
    /\ hist = [r \in Rows |-> NoHist]
    /\ revoked = {}
    /\ resolved = NoResolve

NextResolve ==
    \E id \in ResolveIds, c \in ResolveReqs, limit \in 0..MaxLimit :
        Resolve(id, c, limit)

SpecResolve == InitResolve /\ [][NextResolve]_vars

\* ------------------------------------------------------------- the claims

ReqRow(p) == DbRow(req[p].id, req[p].ver)

\* The uploads that have inserted the row r and not replied yet.
Winners(r) ==
    {p \in Procs : pc[p] \in {"put_cache", "mkdir", "write"} /\ ReqRow(p) = r}

\* C1: of the concurrent uploads of one (id, version) that is not yet in
\* mods, exactly one inserts the row, performs the one write_file for it
\* and replies 201; every other one replies 409.
C1_OneWinner ==
    \A r \in Rows :
        /\ Cardinality(Winners(r)) <= 1
        /\ r \notin mods =>
              /\ Winners(r) = {}
              /\ hist[r].created = 0 /\ hist[r].puts = 0
              /\ hist[r].conflict = 0
        /\ r \in mods =>
              /\ hist[r].created + Cardinality(Winners(r)) = 1
              /\ hist[r].failed = 0
              /\ hist[r].puts =
                    IF \E p \in Winners(r) : pc[p] = "put_cache" THEN 0 ELSE 1

\* Three uploads of one row in flight together: one has inserted it and is
\* about to write, one has been told 409, one has yet to insert.
C1_Witness ==
    \E r \in Rows, p \in Procs, q \in Procs :
        /\ pc[p] = "write" /\ ReqRow(p) = r
        /\ pc[q] = "insert" /\ ReqRow(q) = r
        /\ hist[r].conflict = 1


\* What a token is in publish_keys, read off the table itself.
TokenUnknown(token) ==
    token = NoToken \/ \A k \in publish_keys : k.pw # token

\* The step is a reply of route op with this status.
Replies(op, status) ==
    /\ last'.op = op
    /\ last'.status = status

\* The step takes up a request: the route and the Authorization header of
\* that request, which is in req' when the task goes on serving it and in
\* last' when the step has replied to it already.
TakesUp == nops' = nops + 1
Taken ==
    IF \E p \in Procs : req'[p] # req[p]
       THEN req'[CHOOSE p \in Procs : req'[p] # req[p]]
       ELSE [NoReq EXCEPT !.op = last'.op, !.token = last'.token]

\* C2: an upload whose Authorization header is missing or is no pw of
\* publish_keys when auth looks it up is answered 401 and is over: it
\* inserts no row, writes no file or directory and leaves the cache alone.
C2_UnauthorizedUpload ==
    [][(TakesUp /\ Taken.op = "upload" /\ TokenUnknown(Taken.token)) =>
          /\ Replies("upload", 401)
          /\ UNCHANGED <<pc, req>>
          /\ UNCHANGED <<mods, files, dirs, cache, publish_keys>>]_vars

\* An upload with a token that is in nobody's row has been answered 401
\* while another token resolves.
C2_Witness ==
    /\ last.op = "upload" /\ last.status = 401 /\ last.token = "t1"
    /\ TokenUnknown("t1") /\ ~TokenUnknown("t2")

ReqLeaf(p) == LeafFile(req[p].id, req[p].ver)

\* The leaf file of a row of mods (From<DbMod> for Mod, then the path).
RowLeaf(r) == <<r.id, AsU64(r.major), AsU64(r.minor), AsU64(r.patch)>>

\* Task p takes the step that leaves the await point `at`.
Leaves(p, at) == pc[p] = at /\ pc'[p] # at

\* C3: an upload of an (id, version) whose row is in mods is answered 409
\* and does nothing: mods, the files, the directories and the cache are as
\* they were, and so is what every download is served.
C3_ConflictWritesNothing ==
    [][\A p \in Procs :
          (Leaves(p, "insert") /\ ReqRow(p) \in mods) =>
              /\ Replies("upload", 409)
              /\ pc'[p] = "idle"
              /\ UNCHANGED <<mods, files, dirs, cache>>
              /\ \A id \in Ids, ver \in Versions :
                    GetFileResult(id, ver, cache', files')
                        = GetFileResult(id, ver, cache, files)]_vars

\* An upload has been answered 409 for a row whose artifact is on disk.
C3_Witness ==
    /\ last.op = "upload" /\ last.status = 409
    /\ \E r \in Rows :
          /\ hist[r].conflict = 1 /\ hist[r].created = 1
          /\ RowLeaf(r) \in DOMAIN files

\* C4: a download of an (id, version) whose artifact is on disk is answered
\* with exactly the bytes that upload wrote there.
C4_DownloadIsPublished ==
    [][\A p \in Procs :
          ((Leaves(p, "cache_get") \/ Leaves(p, "load"))
                /\ pc'[p] = "idle" /\ ReqLeaf(p) \in DOMAIN files) =>
              /\ Replies("download", 200)
              /\ last'.body = files[ReqLeaf(p)]]_vars

\* What C5 says of a state: the row and the leaf file of a delete that
\* replied 200 are gone until the next upload inserts the row.
C5_DeletedIsGone ==
    \A r \in Rows :
        hist[r].since = "deleted" =>
            r \notin mods /\ RowLeaf(r) \notin DOMAIN files
\* What C5 says of the steps of the delete and of the next upload: the
\* delete that replies 200 leaves neither row nor leaf, and the next upload
\* of the row is not answered 409 but inserts the row.
C5_NoResidualConflict ==
    \A p \in Procs :
        /\ (Leaves(p, "db_delete") /\ last'.status = 200) =>
              /\ ReqRow(p) \notin mods'
              /\ ReqLeaf(p) \notin DOMAIN files'
              /\ hist'[ReqRow(p)].since = "deleted"
        /\ (Leaves(p, "insert") /\ hist[ReqRow(p)].since = "deleted") =>
              /\ pc'[p] = "put_cache"
              /\ ReqRow(p) \in mods'

\* C5, as claimed: after a delete has replied 200 the row and the leaf file
\* are gone, and the next upload of the row inserts it and replies 201.
C5_RepublishCreated ==
    \A p \in Procs :
        (Leaves(p, "write") /\ hist[ReqRow(p)].since = "inserted") =>
            Replies("upload", 201) /\ ReqLeaf(p) \in DOMAIN files'
C5_RepublishOrFail ==
    \A p \in Procs :
        (Leaves(p, "write") /\ hist[ReqRow(p)].since = "inserted") =>
            \/ Replies("upload", 201) /\ ReqLeaf(p) \in DOMAIN files'
            \/ Replies("upload", 500) /\ Parent(ReqLeaf(p)) \notin dirs
C6_MissingIsNotFound ==
    [][\A p \in Procs :
          ((Leaves(p, "cache_get") \/ Leaves(p, "load"))
                /\ pc'[p] = "idle" /\ ReqLeaf(p) \notin DOMAIN files
                /\ \A q \in Procs \ {p} : pc[q] = "idle") =>
              Replies("download", 404)]_vars

\* C7: a token that delete_key has deleted by pw (replying 200) is in no
\* row of publish_keys until add_key inserts it again, and until then an
\* upload with it is answered 401 and inserts nothing.
C7_RevokedUnknown == \A t \in revoked : TokenUnknown(t)
C7_RevokedUpload ==
    (TakesUp /\ Taken.op = "upload" /\ Taken.token \in revoked) =>
        /\ Replies("upload", 401)
        /\ UNCHANGED <<pc, req, mods, files, dirs, cache>>
C7_RevokedToken == []C7_RevokedUnknown /\ [][C7_RevokedUpload]_vars

\* An upload with a deleted token has been answered 401.
C7_Witness ==
    /\ last.op = "upload" /\ last.status = 401
    /\ last.token \in revoked

\* C10: delete, add_key and delete_key with a missing header or a token
\* that is not in config.admin_keys, a publisher's token included, are
\* answered 401 and change nothing; and an admin token that is no pw of
\* publish_keys does not get an upload past auth.
AdminRoutes == {"delete", "add_key", "delete_key"}
C10_AdminOnly ==
    [][/\ (TakesUp /\ Taken.op \in AdminRoutes
                  /\ Taken.token \notin admin_keys) =>
              /\ Replies(Taken.op, 401)
              /\ UNCHANGED <<pc, req, iter>>
              /\ UNCHANGED <<mods, files, dirs, cache, publish_keys>>
       /\ (TakesUp /\ Taken.op = "upload" /\ Taken.token \in admin_keys
                  /\ TokenUnknown(Taken.token)) =>
              /\ Replies("upload", 401)
              /\ UNCHANGED <<pc, req>>
              /\ UNCHANGED <<mods, files, dirs, cache, publish_keys>>]_vars

\* A delete with a publisher's valid token has been answered 401 with an
\* artifact on disk.
C10_Witness ==
    /\ last.op = "delete" /\ last.status = 401 /\ last.token = "t1"
    /\ ~TokenUnknown("t1")
    /\ DOMAIN files # {}

\* The catalogued versions of id that satisfy c, as a set of versions.
Satisfying(id, c) ==
    {v \in {FromDbMod(r) : r \in {x \in mods : x.id = id}} : Matches(c, v)}

\* v is the greater of the two by (major, minor, patch), as numbers.
Greater(v, w) ==
    \/ v.major > w.major
    \/ v.major = w.major /\ v.minor > w.minor
    \/ v.major = w.major /\ v.minor = w.minor /\ v.patch > w.patch

RECURSIVE Descending(_)
Descending(vs) ==
    IF vs = {} THEN <<>>
    ELSE LET top == CHOOSE v \in vs : \A w \in vs \ {v} : Greater(v, w)
         IN <<top>> \o Descending(vs \ {top})

\* C8: limit = 1 answers with the greatest satisfying version; limit = 0
\* with all of them, greatest first; limit = n > 1 with the first
\* min(n, number of them) of that sequence.
C8_ResolveOrder ==
    resolved.status = 200 =>
        LET all == Descending(Satisfying(resolved.id, resolved.req)) IN
        resolved.found =
            IF resolved.limit = 0 THEN all ELSE Take(all, resolved.limit)

\* C9, as claimed: no satisfying version is 404 whatever the limit.
C9_NoMatchIsNotFound ==
    (resolved.status # 0 /\ Satisfying(resolved.id, resolved.req) = {}) =>
        resolved.status = 404

\* C9, amended: no satisfying version is 404 when limit = 1, and 200 with
\* an empty array when limit is 0 or more than 1.
C9_NoMatchByLimit ==
    (resolved.status # 0 /\ Satisfying(resolved.id, resolved.req) = {}) =>
        IF resolved.limit = 1
           THEN resolved.status = 404
           ELSE resolved.status = 200 /\ resolved.found = <<>>

\* A query with limit 1 that nothing satisfies, of an id that has versions,
\* has been answered 404.
C9_Witness ==
    /\ resolved.status = 404 /\ resolved.limit = 1
    /\ \E r \in mods : r.id = resolved.id
    /\ Satisfying(resolved.id, resolved.req) = {}

\* The rows of publish_keys that a body of delete_key names: those of its
\* pw when it has one, else those of its user.
Named(pw, user) ==
    IF pw # NoToken THEN {k \in publish_keys : k.pw = pw}
    ELSE IF user # NoToken THEN {k \in publish_keys : k.user = user}
    ELSE {}

C17_DeleteUserCascades ==
    [][/\ \A p \in Tasks, user \in Users, token \in admin_keys :
             (DeleteKey(p, token, NoToken, user) /\ last'.status = 200) =>
                 \A k \in publish_keys :
                     IF k.user = user
                        THEN ~Auth(k.pw, publish_keys')
                        ELSE k \in publish_keys' /\ Auth(k.pw, publish_keys')
       /\ (TakesUp /\ Taken.op = "upload") =>
             ((pc' = pc /\ Replies("upload", 401))
                 <=> TokenUnknown(Taken.token))]_vars

\* The first request was a delete_key by user, answered 200: it has deleted
\* two rows and left the row of the other user.
C17_Witness ==
    /\ nops = 1 /\ revoked = {}
    /\ last.op = "delete_key" /\ last.status = 200
    /\ Cardinality(publish_keys) = 1

\* C12: a delete past auth_admin whose leaf file is not there is answered
\* 404 at once and does nothing else: mods, the files, the directories and
\* the cache are as they were.
C12_MissingLeafDoesNothing ==
    [][\A p \in Tasks, id \in Ids, ver \in Versions, token \in admin_keys :
          (DeleteRemoveFile(p, id, ver, token)
                /\ LeafFile(id, ver) \notin DOMAIN files) =>
              /\ Replies("delete", 404)
              /\ UNCHANGED <<pc, req, iter>>
              /\ UNCHANGED <<mods, files, dirs, cache>>]_vars

\* A delete with the admin token has been answered 404 while mods holds a
\* row whose leaf file is not there.
C12_Witness ==
    /\ last.op = "delete" /\ last.status = 404
    /\ last.token \in admin_keys
    /\ \E r \in mods : RowLeaf(r) \notin DOMAIN files

\* C13: when fs::write of write_file fails, after Mod::insert has inserted
\* the row, upload is answered 500, not 201, and the row stays in mods.
C13_FailedWriteKeepsRow ==
    [][\A p \in Tasks :
          (Leaves(p, "write") /\ Parent(ReqLeaf(p)) \notin dirs) =>
              /\ Replies("upload", 500)
              /\ pc'[p] = "idle"
              /\ ReqRow(p) \in mods /\ mods' = mods
              /\ files' = files]_vars

\* An upload has been answered 500 and its row is in mods without a file.
C13_Witness ==
    /\ last.op = "upload" /\ last.status = 500
    /\ \E r \in Rows :
          /\ hist[r].failed = 1
          /\ r \in mods /\ RowLeaf(r) \notin DOMAIN files

\* What C14 says of a state: every file has its directories, up to the
\* root.
C14_TreeIntact ==
    \A f \in DOMAIN files : Prefixes(Parent(f)) \subseteq dirs

\* What C14 says of the steps of a delete: fs::remove_file takes the leaf
\* and nothing else; each turn of the loop takes one ancestor directory of
\* the leaf, below the root and empty, or takes nothing and ends the loop;
\* Mod::delete touches no file; and what get_file returns for every other
\* leaf is as it was.
C14_DeleteSteps ==
    /\ \A p \in Tasks, id \in Ids, ver \in Versions, token \in admin_keys :
          DeleteRemoveFile(p, id, ver, token) =>
              /\ dirs' = dirs
              /\ \A f \in DOMAIN files \ {LeafFile(id, ver)} :
                    f \in DOMAIN files' /\ files'[f] = files[f]
              /\ \A i \in Ids, v \in Versions :
                    LeafFile(i, v) # LeafFile(id, ver) =>
                        GetFileResult(i, v, cache', files')
                            = GetFileResult(i, v, cache, files)
    /\ \A p \in Tasks :
          Leaves(p, "rmdir") =>
              LET d == DeleteDir(req[p].id, req[p].ver, iter[p]) IN
              /\ files' = files /\ cache' = cache
              /\ \/ dirs' = dirs /\ pc'[p] = "db_delete"
                 \/ /\ dirs' = dirs \ {d}
                    /\ d # Root
                    /\ d \in Prefixes(Parent(ReqLeaf(p)))
                    /\ DirEmpty(d, files, dirs)
    /\ \A p \in Tasks :
          Leaves(p, "db_delete") =>
              files' = files /\ dirs' = dirs /\ cache' = cache
    /\ Root \in dirs => Root \in dirs'

\* C14: a delete removes, besides its leaf file, only empty ancestor
\* directories of the leaf, walking upward until one is not empty, and
\* never the root; every other file stays where it is and is served as
\* before.
C14_DeleteRemovesOnlyEmpty == []C14_TreeIntact /\ [][C14_DeleteSteps]_vars

\* The delete of a/1.0.0 has been answered 200 and its sibling a/1.0.1 is
\* still in their directory.
C14_Witness ==
    /\ last.op = "delete" /\ last.status = 200
    /\ LeafFile("a", V(1, 0, 0, "")) \notin DOMAIN files
    /\ LeafFile("a", V(1, 0, 1, "")) \in DOMAIN files
    /\ MinorDir("a", V(1, 0, 1, "")) \in dirs

C15_WriterAlone ==
    lock.writer # NoProc =>
        /\ pc[lock.writer] = "load"
        /\ lock.readers = {}
        /\ \A q \in Procs \ {lock.writer} : pc[q] \notin {"cache_get", "load"}

\* What C15 says of a step taken while a get_file holds the write lock: no
\* other task looks the cache up or inserts into it, and the cache changes
\* only by the holder's own insert.
C15_NoCacheTraffic ==
    lock.writer # NoProc =>
        /\ \A q \in Procs \ {lock.writer} :
              ~Leaves(q, "cache_get") /\ ~Leaves(q, "put_cache")
        /\ cache' # cache => Leaves(lock.writer, "load")

\* C15: from the moment a get_file that missed the cache has the write lock
\* until it has inserted what it read, or failed to read, no other get_file
\* reads the cache and no write_file inserts into it.
C15_ExclusiveLoad == []C15_WriterAlone /\ [][C15_NoCacheTraffic]_vars

\* A get_file holds the write lock while a write_file waits to insert.
C15_Witness ==
    \E p \in Procs, q \in Procs :
        /\ lock.writer = p /\ pc[p] = "load"
        /\ pc[q] = "put_cache"

\* C16: a get_file reads the disk only for a key that is not in the cache
\* when it reads: of the get_file calls that missed one key together, those
\* that get the write lock after the first load are served from the cache.
C16_LoadOnce ==
    [][\A p \in Procs :
          Leaves(p, "load") =>
              CacheKey(req[p].id, req[p].ver) \notin DOMAIN cache]_vars

\* C19: whenever no upload and no delete is being served, in a run in which
\* none of them overlaps another, the leaf files are those of the rows of
\* mods.
C19_FileIffRow ==
    Quiet => {RowLeaf(r) : r \in mods} = DOMAIN files

\* A delete has been answered 200 as the third request, and a row and its
\* file are left.
C19_Witness ==
    /\ Quiet /\ nops = 3
    /\ last.op = "delete" /\ last.status = 200
    /\ mods # {} /\ DOMAIN files # {}

\* C20: a cache entry whose key no write_file is working on has its file on
\* disk, with the content that is cached.
C20_CacheCoherent ==
    \A k \in DOMAIN cache :
        (\A p \in Procs :
            pc[p] \in {"put_cache", "mkdir", "write"} =>
                CacheKey(req[p].id, req[p].ver) # k) =>
            /\ LeafFile(k[1], k[2]) \in DOMAIN files
            /\ cache[k] = files[LeafFile(k[1], k[2])]

\* The row has been deleted by a delete that replied 200 and an upload
\* after it has inserted it again and replied 201.
C21_Republished(r) ==
    /\ hist[r].since = "inserted" /\ hist[r].created = 1
    /\ r \in mods /\ RowLeaf(r) \in DOMAIN files

\* C21: after the upload of FirstBody, a delete that replied 200 and an
\* upload of another body that replied 201 for one (id, major, minor, patch),
\* a download of any spelling of that version that is sent after these
\* replies is answered 200 with the bytes of the second upload and not with
\* FirstBody.
C21_FreshAfterRepublish ==
    [][\A p \in Tasks :
          ((Leaves(p, "cache_get") \/ Leaves(p, "load"))
                /\ pc'[p] = "idle"
                /\ C21_Republished(ReqRow(p))) =>
              /\ Replies("download", 200)
              /\ last'.body = files[ReqLeaf(p)]
              /\ last'.body # FirstBody]_vars

\* C22: an upload that has inserted the row of a key that was not in mods,
\* while every delete being served is of another key, ends with 201, its
\* row in mods and its file on disk.
C22_PublishUndisturbed ==
    [][\A p \in Tasks :
          (Leaves(p, "write")
                /\ \A q \in Tasks \ {p} :
                      req[q].op = "delete" => ReqRow(q) # ReqRow(p)) =>
              /\ Replies("upload", 201)
              /\ ReqRow(p) \in mods'
              /\ ReqLeaf(p) \in DOMAIN files']_vars

\* C23: when no request is being served there is no (id, version) for which
\* Mod::insert would insert nothing, so that upload answers 409, and
\* fs::remove_file would find no file, so that delete answers 404.
C23_NoStuckKey ==
    Idle =>
        \A id \in Ids, ver \in Versions :
            ~(/\ ~ModInsertResult(DbRow(id, ver), mods)
              /\ LeafFile(id, ver) \notin DOMAIN files)

====
